---- MODULE Spec2Model ----
(***************************************************************************)
(* A model of the Binance Futures Testnet trading bot: the validators      *)
(* (trading_bot/validators.py), the REST client (trading-bot/client.py),   *)
(* the order orchestrator (trading-bot/orders.py) and the entry point of   *)
(* the command line (cli.py).                                              *)
(*                                                                         *)
(* Text is a sequence of string tokens.  User input is spelled one         *)
(* character per token, so that strip, upper, isalpha and the Decimal      *)
(* parser work on characters; the literal parts of a format string are     *)
(* one token each.  A Python call is an operator returning a record whose  *)
(* field exc is "" on a normal return (the value is in val) and the name   *)
(* of the exception class otherwise.                                       *)
(***************************************************************************)
EXTENDS Integers, Sequences, FiniteSets, TLC

VARIABLES
    op,        \* the operation that ran last
    args,      \* its inputs
    outcome,   \* what it returned or raised
    http,      \* the HTTP requests the session issued during it, in order
    signed,    \* the query strings _sign fed to HMAC during it, in order
    log,       \* the log records emitted during it, in order
    logger,    \* the process-wide "trading_bot" logger: its level, whether it has handlers
    client,    \* the BinanceClient the caller holds, if any
    pc         \* "idle": no call made yet or the last one taken note of; else where the last call left the process

vars == <<op, args, outcome, http, signed, log, logger, client, pc>>

---------------------------------------------------------------------------
(* Bounds of the model. *)

\* time.time() * 1000 is drawn from 1..MaxClock
MaxClock == 2

---------------------------------------------------------------------------
(* Optional values and call results. *)

None == [some |-> FALSE]
Some(v) == [some |-> TRUE, v |-> v]

Return(v) == [exc |-> "", val |-> v]
Raise(kind, text) == [exc |-> kind, msg |-> text]

\* the classes an exception is an instance of (its class and all its bases)
Bases(kind) ==
    CASE kind = "ValidationError" -> {"ValidationError", "ValueError", "Exception"}
      [] kind = "ValueError" -> {"ValueError", "Exception"}
      [] kind = "InvalidOperation" ->
            {"InvalidOperation", "DecimalException", "ArithmeticError", "Exception"}
      [] kind = "BinanceAPIError" -> {"BinanceAPIError", "Exception"}
      [] kind = "ConnectionError" -> {"ConnectionError", "OSError", "Exception"}
      [] kind = "TimeoutError" -> {"TimeoutError", "OSError", "Exception"}
      [] kind = "requests.ConnectionError" ->
            {"requests.ConnectionError", "requests.RequestException", "OSError", "Exception"}
      [] kind = "requests.ConnectTimeout" ->
            {"requests.ConnectTimeout", "requests.ConnectionError", "requests.Timeout",
             "requests.RequestException", "OSError", "Exception"}
      [] kind = "requests.ReadTimeout" ->
            {"requests.ReadTimeout", "requests.Timeout", "requests.RequestException",
             "OSError", "Exception"}
      [] kind = "requests.TooManyRedirects" ->
            {"requests.TooManyRedirects", "requests.RequestException", "OSError", "Exception"}
      [] kind = "requests.HTTPError" ->
            {"requests.HTTPError", "requests.RequestException", "OSError", "Exception"}
      [] kind = "requests.JSONDecodeError" ->
            {"requests.JSONDecodeError", "requests.RequestException", "OSError",
             "ValueError", "Exception"}
      [] kind = "SystemExit" -> {"SystemExit", "BaseException"}
      [] OTHER -> {kind, "Exception"}

IsInstance(r, class) == r.exc # "" /\ class \in Bases(r.exc)

---------------------------------------------------------------------------
(* Text. *)

Whitespace == {" ", "\t", "\n", "\r", "\f"}
LowerChars == <<"a", "b", "c", "d", "e", "f", "g", "h", "i", "j", "k", "l", "m",
                "n", "o", "p", "q", "r", "s", "t", "u", "v", "w", "x", "y", "z">>
UpperChars == <<"A", "B", "C", "D", "E", "F", "G", "H", "I", "J", "K", "L", "M",
                "N", "O", "P", "Q", "R", "S", "T", "U", "V", "W", "X", "Y", "Z">>
DigitChars == <<"0", "1", "2", "3", "4", "5", "6", "7", "8", "9">>

Range(s) == {s[i] : i \in 1..Len(s)}
IndexOf(s, c) == IF c \in Range(s) THEN CHOOSE i \in 1..Len(s) : s[i] = c ELSE 0
FirstIndexOf(s, c) ==
    IF c \in Range(s)
    THEN CHOOSE i \in 1..Len(s) : s[i] = c /\ \A j \in 1..(i - 1) : s[j] # c
    ELSE 0

upperChar(c) == IF c \in Range(LowerChars) THEN UpperChars[IndexOf(LowerChars, c)] ELSE c
lowerChar(c) == IF c \in Range(UpperChars) THEN LowerChars[IndexOf(UpperChars, c)] ELSE c

\* str.upper, str.lower
upper(s) == [i \in 1..Len(s) |-> upperChar(s[i])]
lower(s) == [i \in 1..Len(s) |-> lowerChar(s[i])]

\* str.isalpha: non-empty and every character a letter
isalpha(s) == Len(s) > 0 /\ \A i \in 1..Len(s) : s[i] \in Range(LowerChars) \cup Range(UpperChars)

RECURSIVE lstrip(_)
lstrip(s) == IF Len(s) > 0 /\ s[1] \in Whitespace THEN lstrip(Tail(s)) ELSE s

RECURSIVE rstrip(_)
rstrip(s) == IF Len(s) > 0 /\ s[Len(s)] \in Whitespace
             THEN rstrip(SubSeq(s, 1, Len(s) - 1)) ELSE s

\* str.strip
strip(s) == rstrip(lstrip(s))

\* s[:n]
Truncate(s, n) == SubSeq(s, 1, IF Len(s) < n THEN Len(s) ELSE n)

StartsWith(s, p) == Len(s) >= Len(p) /\ SubSeq(s, 1, Len(p)) = p
Drop(s, n) == SubSeq(s, n + 1, Len(s))

\* `sub in s` for texts
Contains(s, sub) ==
    \E i \in 0..(Len(s) - Len(sub)) : SubSeq(s, i + 1, i + Len(sub)) = sub

AllDigits(s) == \A i \in 1..Len(s) : s[i] \in Range(DigitChars)

\* int(s) of a string of digits ('' counts as 0)
RECURSIVE DigitsToNat(_)
DigitsToNat(s) ==
    IF Len(s) = 0 THEN 0
    ELSE 10 * DigitsToNat(SubSeq(s, 1, Len(s) - 1)) + (IndexOf(DigitChars, s[Len(s)]) - 1)

\* str(n) of a natural number
RECURSIVE NatToStr(_)
NatToStr(n) ==
    IF n < 10 THEN <<DigitChars[n + 1]>>
    ELSE NatToStr(n \div 10) \o <<DigitChars[(n % 10) + 1]>>

\* str(n) of an int
IntToStr(n) == IF n < 0 THEN <<"-">> \o NatToStr(-n) ELSE NatToStr(n)

\* '0' * n
Zeros(n) == [i \in 1..n |-> "0"]

---------------------------------------------------------------------------
(* decimal.Decimal: a finite number is (-1)^sign * int * 10^exp, kept with *)
(* the digits and the exponent the text gave (no binary rounding).         *)

DecFinite(sign, int, exp) == [kind |-> "F", sign |-> sign, int |-> int, exp |-> exp]
DecInf(sign) == [kind |-> "Inf", sign |-> sign, int |-> 0, exp |-> 0]
DecNaN(sign, signalling, diag) ==
    [kind |-> IF signalling THEN "sNaN" ELSE "NaN", sign |-> sign, int |-> diag, exp |-> 0]

\* the part of s before / after the first c (all of s / nothing when c is absent)
Before(s, c) == IF FirstIndexOf(s, c) = 0 THEN s ELSE SubSeq(s, 1, FirstIndexOf(s, c) - 1)
After(s, c) == IF FirstIndexOf(s, c) = 0 THEN <<>> ELSE Drop(s, FirstIndexOf(s, c))

ExpoDigits(expo) == IF Len(expo) > 0 /\ expo[1] \in {"+", "-"} THEN Tail(expo) ELSE expo
ExpoOk(expo) == Len(ExpoDigits(expo)) > 0 /\ AllDigits(ExpoDigits(expo))
ExpoVal(expo) == IF Len(expo) > 0 /\ expo[1] = "-"
                 THEN -DigitsToNat(ExpoDigits(expo)) ELSE DigitsToNat(ExpoDigits(expo))

\* digits [. digits] [E [sign] digits], at least one digit in the mantissa
DecimalNumber(sign, intpart, fracpart, hasExp, expo) ==
    IF /\ AllDigits(intpart) /\ AllDigits(fracpart)
       /\ Len(intpart) + Len(fracpart) > 0
       /\ (hasExp => ExpoOk(expo))
    THEN Return(DecFinite(sign, DigitsToNat(intpart \o fracpart),
                          ExpoVal(expo) - Len(fracpart)))
    ELSE Raise("InvalidOperation", <<"[<class 'decimal.ConversionSyntax'>]">>)

\* the text after the sign, lower-cased
DecimalBody(sign, body) ==
    CASE body \in {<<"i", "n", "f">>, <<"i", "n", "f", "i", "n", "i", "t", "y">>} ->
            Return(DecInf(sign))
      [] StartsWith(body, <<"n", "a", "n">>) /\ AllDigits(Drop(body, 3)) ->
            Return(DecNaN(sign, FALSE, DigitsToNat(Drop(body, 3))))
      [] StartsWith(body, <<"s", "n", "a", "n">>) /\ AllDigits(Drop(body, 4)) ->
            Return(DecNaN(sign, TRUE, DigitsToNat(Drop(body, 4))))
      [] OTHER ->
            DecimalNumber(sign, Before(Before(body, "e"), "."), After(Before(body, "e"), "."),
                          "e" \in Range(body), After(body, "e"))

DecimalSigned(s0) ==
    DecimalBody(IF Len(s0) > 0 /\ s0[1] = "-" THEN 1 ELSE 0,
                lower(IF Len(s0) > 0 /\ s0[1] \in {"+", "-"} THEN Tail(s0) ELSE s0))

\* Decimal(text): the constructor's parser.  [sign] digits [. digits] [E [sign] digits],
\* Inf, Infinity, NaN[digits], sNaN[digits]; case-insensitive, surrounding
\* whitespace and underscores dropped.  Anything else raises InvalidOperation.
Decimal(text) == DecimalSigned(SelectSeq(strip(text), LAMBDA c : c # "_"))

\* d <= 0.  An ordering comparison involving a NaN signals InvalidOperation,
\* which the default context traps.
DecimalLeZero(d) ==
    CASE d.kind \in {"NaN", "sNaN"} ->
            Raise("InvalidOperation", <<"[<class 'decimal.InvalidOperation'>]">>)
      [] d.kind = "Inf" -> Return(d.sign = 1)
      [] OTHER -> Return(d.int = 0 \/ d.sign = 1)

\* Decimal.__str__ of a finite number, from its digits: dotplace is where the
\* point goes, and an exponent is printed when that is not after leftdigits
DecimalLayout(digits, leftdigits, dotplace) ==
    (IF dotplace <= 0 THEN <<"0", ".">> \o Zeros(-dotplace) \o digits
     ELSE IF dotplace >= Len(digits) THEN digits \o Zeros(dotplace - Len(digits))
     ELSE SubSeq(digits, 1, dotplace) \o <<".">> \o Drop(digits, dotplace))
    \o (IF leftdigits = dotplace THEN <<>>
        ELSE <<"E">> \o (IF leftdigits > dotplace THEN <<"+">> ELSE <<>>)
                 \o IntToStr(leftdigits - dotplace))

DecimalFiniteStr(digits, exp) ==
    DecimalLayout(digits, exp + Len(digits),
                  IF exp <= 0 /\ exp + Len(digits) > -6 THEN exp + Len(digits) ELSE 1)

\* str(d): scientific notation when the exponent is positive or the value has
\* more than six leading zeros after the point
DecimalStr(d) ==
    (IF d.sign = 1 THEN <<"-">> ELSE <<>>)
    \o (CASE d.kind = "Inf" -> <<"I", "n", "f", "i", "n", "i", "t", "y">>
          [] d.kind = "NaN" -> <<"N", "a", "N">> \o (IF d.int = 0 THEN <<>> ELSE NatToStr(d.int))
          [] d.kind = "sNaN" ->
                <<"s", "N", "a", "N">> \o (IF d.int = 0 THEN <<>> ELSE NatToStr(d.int))
          [] OTHER -> DecimalFiniteStr(NatToStr(d.int), d.exp))

\* bool(d), as in `price or "MARKET"`
DecimalTruthy(d) == d.kind # "F" \/ d.int # 0

---------------------------------------------------------------------------
(* trading_bot/validators.py *)

VALID_SIDES == {<<"B", "U", "Y">>, <<"S", "E", "L", "L">>}
VALID_ORDER_TYPES == {<<"M", "A", "R", "K", "E", "T">>, <<"L", "I", "M", "I", "T">>}
MARKET == <<"M", "A", "R", "K", "E", "T">>
LIMIT == <<"L", "I", "M", "I", "T">>

\* the check on the stripped, upper-cased symbol
symbol_checked(s) ==
    IF Len(s) = 0 \/ ~isalpha(s)
    THEN Raise("ValidationError",
               <<"Invalid symbol '">> \o s \o <<"'. Must be alphabetic, e.g. BTCUSDT.">>)
    ELSE Return(s)

validate_symbol(symbol) == symbol_checked(upper(strip(symbol)))

side_checked(s) ==
    IF s \notin VALID_SIDES
    THEN Raise("ValidationError",
               <<"Invalid side '">> \o s \o <<"'. Must be one of: BUY, SELL.">>)
    ELSE Return(s)

validate_side(side) == side_checked(upper(strip(side)))

order_type_checked(s) ==
    IF s \notin VALID_ORDER_TYPES
    THEN Raise("ValidationError",
               <<"Invalid order type '">> \o s \o <<"'. Must be one of: LIMIT, MARKET.">>)
    ELSE Return(s)

validate_order_type(order_type) == order_type_checked(upper(strip(order_type)))

\* `if qty <= 0: raise ...; return qty`, le being the comparison's outcome
quantity_checked(qty, le) ==
    IF le.exc # "" THEN le
    ELSE IF le.val
    THEN Raise("ValidationError",
               <<"Quantity must be greater than zero, got ">> \o DecimalStr(qty) \o <<".">>)
    ELSE Return(qty)

\* the try/except around Decimal(str(quantity)), then the range check
quantity_parsed(quantity, parsed) ==
    IF parsed.exc = "InvalidOperation"
    THEN Raise("ValidationError",
               <<"Invalid quantity '">> \o quantity \o <<"'. Must be a positive number.">>)
    ELSE quantity_checked(parsed.val, DecimalLeZero(parsed.val))

validate_quantity(quantity) == quantity_parsed(quantity, Decimal(quantity))

price_checked(p, le) ==
    IF le.exc # "" THEN le
    ELSE IF le.val
    THEN Raise("ValidationError",
               <<"Price must be greater than zero, got ">> \o DecimalStr(p) \o <<".">>)
    ELSE Return(Some(p))

price_parsed(price, parsed) ==
    IF parsed.exc = "InvalidOperation"
    THEN Raise("ValidationError",
               <<"Invalid price '">> \o price \o <<"'. Must be a positive number.">>)
    ELSE price_checked(parsed.val, DecimalLeZero(parsed.val))

\* validate_price skipping the checks for MARKET only when no price was given
validate_price_kept(price, order_type) ==
    IF ~price.some \/ strip(price.v) = <<>>
    THEN IF order_type = MARKET THEN Return(None)
         ELSE Raise("ValidationError", <<"Price is required for LIMIT orders.">>)
    ELSE price_parsed(price.v, Decimal(price.v))

\* price is None or Some(text); the result is None or Some(Decimal)
validate_price(price, order_type) ==
    IF order_type = MARKET THEN Return(None)
    ELSE IF ~price.some \/ strip(price.v) = <<>>
    THEN Raise("ValidationError", <<"Price is required for LIMIT orders.">>)
    ELSE price_parsed(price.v, Decimal(price.v))

\* The dict display evaluates its values in order; the first exception ends it.
validated(sy, si, ot, qt, pr) ==
    IF sy.exc # "" THEN sy
    ELSE IF si.exc # "" THEN si
    ELSE IF ot.exc # "" THEN ot
    ELSE IF qt.exc # "" THEN qt
    ELSE IF pr.exc # "" THEN pr
    ELSE Return([symbol |-> sy.val, side |-> si.val, order_type |-> ot.val,
                 quantity |-> qt.val, price |-> pr.val])

validate_all(symbol, side, order_type, quantity, price) ==
    validated(validate_symbol(symbol), validate_side(side), validate_order_type(order_type),
              validate_quantity(quantity), validate_price(price, upper(strip(order_type))))

---------------------------------------------------------------------------
(* logging: a record is emitted when its level is at least the logger's. *)

LevelNo(level) ==
    CASE level = "DEBUG" -> 10
      [] level = "INFO" -> 20
      [] level = "WARNING" -> 30
      [] level = "ERROR" -> 40
      [] OTHER -> 20

\* logger.<level>(...) of the logger `name` while the "trading_bot" logger is at lvl
Emit(lvl, level, name, text) ==
    IF LevelNo(level) >= LevelNo(lvl)
    THEN <<[level |-> level, name |-> name, msg |-> text]>>
    ELSE <<>>

---------------------------------------------------------------------------
(* Dicts keep insertion order: a sequence of entries [k, v].  A parameter  *)
(* value is kept as the text str() gives, which is what urlencode, the     *)
(* log's %s and the HTTP session all make of it.                           *)

Keys(d) == [i \in 1..Len(d) |-> d[i].k]
HasKey(d, k) == \E i \in 1..Len(d) : d[i].k = k
Lookup(d, k) == d[CHOOSE i \in 1..Len(d) : d[i].k = k].v

\* d[k] = v: a new key goes last, an existing key keeps its place
DictSet(d, k, v) ==
    IF HasKey(d, k)
    THEN [i \in 1..Len(d) |-> IF d[i].k = k THEN [k |-> k, v |-> v] ELSE d[i]]
    ELSE Append(d, [k |-> k, v |-> v])

\* str(d) of a parameter dict
RECURSIVE ReprItems(_)
ReprItems(d) ==
    IF Len(d) = 0 THEN <<>>
    ELSE <<"'", d[1].k, "': ">> \o d[1].v
             \o (IF Len(d) > 1 THEN <<", ">> ELSE <<>>) \o ReprItems(Tail(d))

ReprDict(d) == <<"{">> \o ReprItems(d) \o <<"}">>

\* urllib.parse.quote_plus on the characters parameter values hold
quote_plus(v) ==
    [i \in 1..Len(v) |-> IF v[i] = "+" THEN "%2B" ELSE IF v[i] = " " THEN "+" ELSE v[i]]

\* urllib.parse.urlencode: k=v joined by &, in the dict's order
RECURSIVE urlencode(_)
urlencode(d) ==
    IF Len(d) = 0 THEN <<>>
    ELSE <<d[1].k, "=">> \o quote_plus(d[1].v)
             \o (IF Len(d) > 1 THEN <<"&">> ELSE <<>>) \o urlencode(Tail(d))

---------------------------------------------------------------------------
(* JSON values as response.json() returns them.  A scalar is an int or a   *)
(* str; a dict is a sequence of entries [k, v] with scalar values; a list  *)
(* holds dicts.                                                            *)

JInt(n) == [ty |-> "int", n |-> n, s |-> <<>>]
JStr(s) == [ty |-> "str", n |-> 0, s |-> s]
JDict(entries) == [t |-> "dict", items |-> entries]
JList(items) == [t |-> "list", items |-> items]
E(k, v) == [k |-> k, v |-> v]

ScalarStr(x) == IF x.ty = "int" THEN IntToStr(x.n) ELSE x.s

\* str(d) of a JSON dict
ReprJson(d) == ReprDict([i \in 1..Len(d.items) |->
                            [k |-> d.items[i].k, v |-> ScalarStr(d.items[i].v)]])

\* d.get(k): None when the key is absent
DictGet(d, k) == IF HasKey(d.items, k) THEN Some(Lookup(d.items, k)) ELSE None

---------------------------------------------------------------------------
(* trading-bot/client.py *)

RECV_WINDOW == 5000
BodyLogLimit == 500
BodyErrorLimit == 200

\* the credentials a client can be built with; the empty string is refused
ApiKey == <<"k", "e", "y", "1">>
ApiSecret == <<"s", "e", "c", "1">>

\* BinanceAPIError(status_code, code, msg); msg is text
BinanceAPIError(status_code, code, msg) ==
    [exc |-> "BinanceAPIError",
     msg |-> <<"Binance API error ">> \o IntToStr(code) \o <<": ">> \o msg
                 \o <<" (HTTP ">> \o IntToStr(status_code) \o <<")">>,
     status_code |-> status_code, code |-> code, api_msg |-> msg]

\* BinanceClient.__init__
BinanceClient_init(api_key, api_secret, lvl) ==
    IF Len(api_key) = 0 \/ Len(api_secret) = 0
    THEN [result |-> Raise("ValueError", <<"api_key and api_secret must be non-empty strings.">>),
          log |-> <<>>]
    ELSE [result |-> Return([api_key |-> api_key, api_secret |-> api_secret,
                             headers |-> <<E("X-MBX-APIKEY", api_key),
                                           E("Content-Type",
                                             <<"application/x-www-form-urlencoded">>)>>]),
          log |-> Emit(lvl, "DEBUG", "trading_bot.client",
                       <<"BinanceClient initialised (base_url=",
                         "https://testnet.binancefuture.com", ")">>)]

\* hmac.new(secret, message, sha256).hexdigest(), kept symbolic: the digest
\* names the message and an opaque mark of the key, never the key itself
hexdigest(secret, message) ==
    <<"hmac_sha256(">> \o <<"key#">> \o NatToStr(Len(secret)) \o <<",">> \o message \o <<")">>

\* the last two statements of _sign: the digest of query_string goes in last
sign_digest(self, params, query_string) ==
    [params |-> DictSet(params, "signature", hexdigest(self.api_secret, query_string)),
     query_string |-> query_string]

\* query_string = urlencode(params), params holding the stamp already
sign_encoded(self, params) == sign_digest(self, params, urlencode(params))

\* _sign with the signature taken before recvWindow is added
BinanceClient_sign_early(self, params, now) ==
    [params |-> DictSet(DictSet(DictSet(params, "timestamp", IntToStr(now)),
                                "recvWindow", IntToStr(RECV_WINDOW)),
                        "signature",
                        hexdigest(self.api_secret,
                                  urlencode(DictSet(params, "timestamp", IntToStr(now))))),
     query_string |-> urlencode(DictSet(params, "timestamp", IntToStr(now)))]

\* BinanceClient._sign: the signed params and the string that was signed
BinanceClient_sign(self, params, now) ==
    sign_encoded(self, DictSet(DictSet(params, "timestamp", IntToStr(now)),
                               "recvWindow", IntToStr(RECV_WINDOW)))

\* Response.ok: raise_for_status does not raise
ResponseOk(status_code) == ~(400 <= status_code /\ status_code < 600)

\* _request trusting the HTTP status: the body's code is read only when the
\* status signals a failure
request_parsed_by_status(response, data) ==
    IF ~ResponseOk(response.status_code) /\ data.t = "dict"
    THEN BinanceAPIError(response.status_code,
                         IF HasKey(data.items, "code") /\ Lookup(data.items, "code").ty = "int"
                         THEN Lookup(data.items, "code").n ELSE -1,
                         IF HasKey(data.items, "msg")
                         THEN ScalarStr(Lookup(data.items, "msg")) ELSE response.text)
    ELSE Return(data)

\* _request once the body parsed as data: the API-error checks
request_parsed(response, data) ==
    IF data.t = "dict" /\ HasKey(data.items, "code") /\ Lookup(data.items, "code").ty # "int"
    THEN \* data["code"] < 0 on a str
         Raise("TypeError", <<"'<' not supported between instances of 'str' and 'int'">>)
    ELSE IF data.t = "dict" /\ HasKey(data.items, "code")
            /\ Lookup(data.items, "code").n # 200 /\ Lookup(data.items, "code").n < 0
    THEN BinanceAPIError(response.status_code, Lookup(data.items, "code").n,
                         IF HasKey(data.items, "msg")
                         THEN ScalarStr(Lookup(data.items, "msg")) ELSE <<"Unknown error">>)
    ELSE IF ~ResponseOk(response.status_code)
    THEN IF data.t # "dict"
         THEN Raise("AttributeError", <<"'list' object has no attribute 'get'">>)
         ELSE BinanceAPIError(response.status_code,
                              IF HasKey(data.items, "code")
                              THEN Lookup(data.items, "code").n ELSE -1,
                              IF HasKey(data.items, "msg")
                              THEN ScalarStr(Lookup(data.items, "msg")) ELSE response.text)
    ELSE Return(data)

\* _request once the session returned a response: [result, log]
request_response(url, response, lvl) ==
    IF response.json.t = "invalid"
    THEN [result |-> IF ~ResponseOk(response.status_code)
                     THEN Raise("requests.HTTPError",
                                IntToStr(response.status_code) \o <<" Error for url: ">> \o url)
                     ELSE Raise("requests.JSONDecodeError", <<"Expecting value">>),
          log |-> Emit(lvl, "DEBUG", "trading_bot.client",
                       <<"<- HTTP ">> \o IntToStr(response.status_code) \o <<" | body=">>
                           \o Truncate(response.text, BodyLogLimit))
                  \o Emit(lvl, "ERROR", "trading_bot.client",
                          <<"Non-JSON response: ">> \o Truncate(response.text, BodyErrorLimit))]
    ELSE [result |-> request_parsed(response, response.json),
          log |-> Emit(lvl, "DEBUG", "trading_bot.client",
                       <<"<- HTTP ">> \o IntToStr(response.status_code) \o <<" | body=">>
                           \o Truncate(response.text, BodyLogLimit))]

\* _request from session.request on: net is what the session does, it raises
\* (net.exc names the requests exception) or returns a response
request_sent(url, net, lvl) ==
    IF net.exc = "" THEN request_response(url, net.val, lvl)
    ELSE IF IsInstance(net, "requests.ConnectionError")
    THEN [result |-> Raise("ConnectionError", <<"Cannot reach Binance testnet: ">> \o net.msg),
          log |-> Emit(lvl, "ERROR", "trading_bot.client",
                       <<"Network error contacting ">> \o url \o <<": ">> \o net.msg)]
    ELSE IF IsInstance(net, "requests.Timeout")
    THEN [result |-> Raise("TimeoutError", <<"Request timed out: ">> \o net.msg),
          log |-> Emit(lvl, "ERROR", "trading_bot.client",
                       <<"Request to ">> \o url \o <<" timed out: ">> \o net.msg)]
    ELSE [result |-> net, log |-> <<>>]

\* _request with the params as they go out: sg is _sign's result for a signed
\* call, rl what followed the send
request_made(self, method, endpoint, signedCall, params, sg, net, lvl, rl) ==
    [result |-> rl.result,
     http |-> <<[method |-> method, url |-> <<"https://testnet.binancefuture.com", endpoint>>,
                 params |-> IF signedCall THEN sg.params ELSE params,
                 headers |-> self.headers, reply |-> net]>>,
     signed |-> IF signedCall THEN <<sg.query_string>> ELSE <<>>,
     log |-> Emit(lvl, "DEBUG", "trading_bot.client",
                  <<"-> ", method, " ", endpoint, " | params=">>
                      \o ReprDict(IF signedCall THEN sg.params ELSE params))
             \o rl.log]

\* BinanceClient._request
BinanceClient_request(self, method, endpoint, signedCall, params, now, net, lvl) ==
    request_made(self, method, endpoint, signedCall, params,
                 BinanceClient_sign(self, params, now), net, lvl,
                 request_sent(<<"https://testnet.binancefuture.com", endpoint>>, net, lvl))

\* a call that ended before it reached the session
NoRequest(result, records) == [result |-> result, http |-> <<>>, signed |-> <<>>, log |-> records]

\* str(x) of an optional scalar, as %s prints d.get(k)
OptStr(x) == IF x.some THEN ScalarStr(x.v) ELSE <<"None">>

\* data["serverTime"] of what _request gave
server_time_read(r) ==
    IF r.result.exc # "" THEN r
    ELSE IF r.result.val.t # "dict"
    THEN [r EXCEPT !.result = Raise("TypeError", <<"list indices must be integers">>)]
    ELSE IF ~HasKey(r.result.val.items, "serverTime")
    THEN [r EXCEPT !.result = Raise("KeyError", <<"'serverTime'">>)]
    ELSE [r EXCEPT !.result = Return(Lookup(r.result.val.items, "serverTime"))]

\* BinanceClient.get_server_time
BinanceClient_get_server_time(self, now, net, lvl) ==
    server_time_read(BinanceClient_request(self, "GET", "/fapi/v1/time", FALSE, <<>>,
                                           now, net, lvl))

\* BinanceClient.get_exchange_info; symbol is None or Some(text)
BinanceClient_get_exchange_info(self, symbol, now, net, lvl) ==
    BinanceClient_request(self, "GET", "/fapi/v1/exchangeInfo", FALSE,
                          IF symbol.some /\ Len(symbol.v) > 0
                          THEN DictSet(<<>>, "symbol", symbol.v) ELSE <<>>,
                          now, net, lvl)

\* BinanceClient.get_account_balance
BinanceClient_get_account_balance(self, now, net, lvl) ==
    BinanceClient_request(self, "GET", "/fapi/v2/balance", TRUE, <<>>, now, net, lvl)

\* the params dict BinanceClient.place_order builds, from the four fields always sent
order_flagged(p1, reduce_only) ==
    IF reduce_only THEN DictSet(p1, "reduceOnly", <<"true">>) ELSE p1

order_params(p0, order_type, price, time_in_force, reduce_only) ==
    order_flagged(IF order_type = LIMIT
                  THEN DictSet(DictSet(p0, "price", DecimalStr(price.v)),
                               "timeInForce", time_in_force)
                  ELSE p0,
                  reduce_only)

\* place_order after _request: the log line that reads the response
order_requested(log1, r, lvl) ==
    IF r.result.exc # "" THEN [r EXCEPT !.log = log1 \o r.log]
    ELSE IF r.result.val.t # "dict"
    THEN [r EXCEPT !.result = Raise("AttributeError", <<"'list' object has no attribute 'get'">>),
                   !.log = log1 \o r.log]
    ELSE [r EXCEPT !.log = log1 \o r.log
                       \o Emit(lvl, "INFO", "trading_bot.client",
                               <<"Order placed successfully | orderId=">>
                                   \o OptStr(DictGet(r.result.val, "orderId"))
                                   \o <<" status=">>
                                   \o OptStr(DictGet(r.result.val, "status")))]

\* place_order finding the missing price only after the request went out
BinanceClient_place_order_late(self, symbol, side, order_type, quantity, price, time_in_force, reduce_only, now, net, lvl) ==
    IF order_type = LIMIT /\ ~price.some
    THEN [BinanceClient_request(
              self, "POST", "/fapi/v1/order", TRUE,
              <<E("symbol", symbol), E("side", side), E("type", order_type),
                E("quantity", DecimalStr(quantity))>>, now, net, lvl)
          EXCEPT !.result = Raise("ValueError", <<"price is required for LIMIT orders">>)]
    ELSE order_requested(
             <<>>,
             BinanceClient_request(
                 self, "POST", "/fapi/v1/order", TRUE,
                 order_params(<<E("symbol", symbol), E("side", side), E("type", order_type),
                                E("quantity", DecimalStr(quantity))>>,
                              order_type, price, time_in_force, reduce_only),
                 now, net, lvl),
             lvl)

\* BinanceClient.place_order; quantity is a Decimal, price None or Some(Decimal)
BinanceClient_place_order(self, symbol, side, order_type, quantity, price, time_in_force, reduce_only, now, net, lvl) ==
    IF order_type = LIMIT /\ ~price.some
    THEN NoRequest(Raise("ValueError", <<"price is required for LIMIT orders">>), <<>>)
    ELSE order_requested(
             Emit(lvl, "INFO", "trading_bot.client",
                  <<"Placing ">> \o side \o <<" ">> \o order_type \o <<" order | symbol=">>
                      \o symbol \o <<" qty=">> \o DecimalStr(quantity) \o <<" price=">>
                      \o (IF price.some /\ DecimalTruthy(price.v)
                          THEN DecimalStr(price.v) ELSE <<"MARKET">>)),
             BinanceClient_request(
                 self, "POST", "/fapi/v1/order", TRUE,
                 order_params(<<E("symbol", symbol), E("side", side), E("type", order_type),
                                E("quantity", DecimalStr(quantity))>>,
                              order_type, price, time_in_force, reduce_only),
                 now, net, lvl),
             lvl)

\* BinanceClient.get_order
BinanceClient_get_order(self, symbol, order_id, now, net, lvl) ==
    BinanceClient_request(self, "GET", "/fapi/v1/order", TRUE,
                          <<E("symbol", symbol), E("orderId", IntToStr(order_id))>>,
                          now, net, lvl)

\* BinanceClient.cancel_order
BinanceClient_cancel_order(self, symbol, order_id, now, net, lvl) ==
    BinanceClient_request(self, "DELETE", "/fapi/v1/order", TRUE,
                          <<E("symbol", symbol), E("orderId", IntToStr(order_id))>>,
                          now, net, lvl)

---------------------------------------------------------------------------
(* trading-bot/orders.py *)

\* OrderResult(success=False, error_message=...)
OrderFailed(error_message) ==
    [success |-> FALSE, order_id |-> None, symbol |-> None, side |-> None,
     order_type |-> None, status |-> None, executed_qty |-> None, avg_price |-> None,
     price |-> None, orig_qty |-> None, raw_response |-> JDict(<<>>),
     error_message |-> Some(error_message)]

\* OrderResult(success=True, ...) from the raw response
OrderPlaced(resp) ==
    [success |-> TRUE, order_id |-> DictGet(resp, "orderId"),
     symbol |-> DictGet(resp, "symbol"), side |-> DictGet(resp, "side"),
     order_type |-> DictGet(resp, "type"), status |-> DictGet(resp, "status"),
     executed_qty |-> DictGet(resp, "executedQty"), avg_price |-> DictGet(resp, "avgPrice"),
     price |-> DictGet(resp, "price"), orig_qty |-> DictGet(resp, "origQty"),
     raw_response |-> resp, error_message |-> None]

\* the except clauses around client.place_order, in their order, and the
\* result built when none applies; r is what the client call did
order_placed(log1, r, lvl) ==
    IF IsInstance(r.result, "ValidationError")
    THEN [r EXCEPT !.result = Return(OrderFailed(r.result.msg)),
                   !.log = log1 \o r.log
                       \o Emit(lvl, "ERROR", "trading_bot.orders",
                               <<"Validation error during order placement: ">> \o r.result.msg)]
    ELSE IF IsInstance(r.result, "BinanceAPIError")
    THEN [r EXCEPT !.result = Return(OrderFailed(r.result.msg)),
                   !.log = log1 \o r.log
                       \o Emit(lvl, "ERROR", "trading_bot.orders",
                               <<"Binance API error: ">> \o r.result.msg)]
    ELSE IF IsInstance(r.result, "ConnectionError") \/ IsInstance(r.result, "TimeoutError")
    THEN [r EXCEPT !.result = Return(OrderFailed(<<"Network error: ">> \o r.result.msg)),
                   !.log = log1 \o r.log
                       \o Emit(lvl, "ERROR", "trading_bot.orders",
                               <<"Network error: ">> \o r.result.msg)]
    ELSE IF IsInstance(r.result, "Exception")
    THEN [r EXCEPT !.result = Return(OrderFailed(<<"Unexpected error: ">> \o r.result.msg)),
                   !.log = log1 \o r.log
                       \o Emit(lvl, "ERROR", "trading_bot.orders",
                               <<"Unexpected error placing order: ">> \o r.result.msg)]
    ELSE [r EXCEPT !.result = Return(OrderPlaced(r.result.val)),
                   !.log = log1 \o r.log
                       \o Emit(lvl, "DEBUG", "trading_bot.orders",
                               <<"Raw order response: ">> \o ReprJson(r.result.val))
                       \o Emit(lvl, "INFO", "trading_bot.orders",
                               <<"Order result | orderId=">>
                                   \o OptStr(DictGet(r.result.val, "orderId"))
                                   \o <<" status=">>
                                   \o OptStr(DictGet(r.result.val, "status"))
                                   \o <<" executedQty=">>
                                   \o OptStr(DictGet(r.result.val, "executedQty"))
                                   \o <<" avgPrice=">>
                                   \o OptStr(DictGet(r.result.val, "avgPrice")))]

\* place_order checking connectivity before it looks at the validation result
order_validated_after_ping(self, v, now, net, lvl) ==
    IF v.exc # ""
    THEN [BinanceClient_get_server_time(self, now, net, lvl)
          EXCEPT !.result = IF IsInstance(v, "ValidationError")
                            THEN Return(OrderFailed(v.msg)) ELSE v]
    ELSE order_placed(
             <<>>,
             BinanceClient_place_order(self, v.val.symbol, v.val.side, v.val.order_type,
                                       v.val.quantity, v.val.price, <<"GTC">>, FALSE,
                                       now, net, lvl),
             lvl)

\* place_order from the result v of validate_all on
order_validated(self, v, now, net, lvl) ==
    IF IsInstance(v, "ValidationError")
    THEN NoRequest(Return(OrderFailed(v.msg)),
                   Emit(lvl, "WARNING", "trading_bot.orders",
                        <<"Validation failed: ">> \o v.msg))
    ELSE IF v.exc # "" THEN NoRequest(v, <<>>)
    ELSE order_placed(
             Emit(lvl, "INFO", "trading_bot.orders",
                  <<"Order request | symbol=">> \o v.val.symbol \o <<" side=">>
                      \o v.val.side \o <<" type=">> \o v.val.order_type \o <<" qty=">>
                      \o DecimalStr(v.val.quantity) \o <<" price=">>
                      \o (IF v.val.price.some /\ DecimalTruthy(v.val.price.v)
                          THEN DecimalStr(v.val.price.v) ELSE <<"N/A (MARKET)">>)),
             BinanceClient_place_order(self, v.val.symbol, v.val.side, v.val.order_type,
                                       v.val.quantity, v.val.price, <<"GTC">>, FALSE,
                                       now, net, lvl),
             lvl)

\* orders.place_order; price is None or Some(text)
place_order(self, symbol, side, order_type, quantity, price, now, net, lvl) ==
    order_validated(self, validate_all(symbol, side, order_type, quantity, price),
                    now, net, lvl)

---------------------------------------------------------------------------
(* trading-bot/logging_config.py *)

\* the level records are filtered at: an unset logger inherits the root's WARNING
EffectiveLevel(lg) == IF lg.level = "NOTSET" THEN "WARNING" ELSE lg.level

\* getattr(logging, log_level.upper(), logging.INFO)
LevelNamed(log_level) ==
    IF log_level \in {"DEBUG", "INFO", "WARNING", "ERROR"} THEN log_level ELSE "INFO"

\* setup_logging(log_level): handlers are attached, and the first record
\* written, once per process
setup_logging(lg, log_level) ==
    [logger |-> [level |-> LevelNamed(log_level), handlers |-> TRUE],
     log |-> IF lg.handlers THEN <<>>
             ELSE Emit(LevelNamed(log_level), "INFO", "trading_bot",
                       <<"Logging initialised -> ", "logs/trading_bot_<date>.log">>)]

---------------------------------------------------------------------------
(* cli.py *)

\* str(x) of an optional text, as %s prints it in a dict
OptText(x) == IF x.some THEN <<"'">> \o x.v \o <<"'">> ELSE <<"None">>

\* build_parser().parse_args(): raw holds the words of the command line.
\* --side and --type are upper-cased and then checked against their choices;
\* a bad choice ends the process with status 2 before anything else runs.
parse_args(raw) ==
    IF raw.log_level \notin {"DEBUG", "INFO", "WARNING", "ERROR"}
       \/ raw.command \notin {"ping", "balance", "interactive", "place"}
       \/ (raw.command = "place"
           /\ (upper(raw.side) \notin VALID_SIDES \/ upper(raw.type) \notin VALID_ORDER_TYPES))
    THEN Raise("SystemExit", <<"2">>)
    ELSE IF raw.command = "place"
    THEN Return([api_key |-> raw.api_key, api_secret |-> raw.api_secret,
                 log_level |-> raw.log_level, command |-> raw.command,
                 symbol |-> raw.symbol, side |-> upper(raw.side), type |-> upper(raw.type),
                 quantity |-> raw.quantity, price |-> raw.price])
    ELSE Return([api_key |-> raw.api_key, api_secret |-> raw.api_secret,
                 log_level |-> raw.log_level, command |-> raw.command])

\* str(vars(args))
ReprArgs(a) ==
    ReprDict(<<E("api_key", OptText(a.api_key)), E("api_secret", OptText(a.api_secret)),
               E("log_level", <<"'", a.log_level, "'">>)>>
             \o <<E("command", <<"'", a.command, "'">>)>>
             \o (IF a.command = "place"
                 THEN <<E("symbol", <<"'">> \o a.symbol \o <<"'">>),
                        E("side", <<"'">> \o a.side \o <<"'">>),
                        E("type", <<"'">> \o a.type \o <<"'">>),
                        E("quantity", <<"'">> \o a.quantity \o <<"'">>),
                        E("price", OptText(a.price))>>
                 ELSE <<>>))

\* _build_client: flags first, then the environment; exit 1 without credentials
build_client(a, environ, lvl) ==
    IF \/ Len(IF a.api_key.some /\ Len(a.api_key.v) > 0
              THEN a.api_key.v ELSE environ.BINANCE_TESTNET_API_KEY) = 0
       \/ Len(IF a.api_secret.some /\ Len(a.api_secret.v) > 0
              THEN a.api_secret.v ELSE environ.BINANCE_TESTNET_API_SECRET) = 0
    THEN [result |-> Raise("SystemExit", <<"1">>), log |-> <<>>]
    ELSE BinanceClient_init(IF a.api_key.some /\ Len(a.api_key.v) > 0
                            THEN a.api_key.v ELSE environ.BINANCE_TESTNET_API_KEY,
                            IF a.api_secret.some /\ Len(a.api_secret.v) > 0
                            THEN a.api_secret.v ELSE environ.BINANCE_TESTNET_API_SECRET,
                            lvl)

\* the try/except of cmd_ping around r, what get_server_time did
ping_done(r) ==
    IF IsInstance(r.result, "Exception")
    THEN [r EXCEPT !.result = Raise("SystemExit", <<"1">>)]
    ELSE [r EXCEPT !.result = Return(None)]

\* cmd_ping: any failure of the connectivity check ends the process with status 1
cmd_ping(self, now, net, lvl) == ping_done(BinanceClient_get_server_time(self, now, net, lvl))

\* float(b.get("balance", 0)) of one row, through the Decimal parser
BalanceOf(b) ==
    IF HasKey(b.items, "balance") THEN Decimal(ScalarStr(Lookup(b.items, "balance")))
    ELSE Return(DecFinite(0, 0, 0))

\* the listing loop of cmd_balance over the rows
RECURSIVE BalancesShown(_)
BalancesShown(rows) ==
    IF Len(rows) = 0 THEN Return(None)
    ELSE IF BalanceOf(rows[1]).exc # ""
    THEN Raise("ValueError", <<"could not convert string to float">>)
    ELSE IF BalanceOf(rows[1]).val.kind = "F" /\ BalanceOf(rows[1]).val.int = 0
    THEN BalancesShown(Tail(rows))
    ELSE IF ~(HasKey(rows[1].items, "asset") /\ HasKey(rows[1].items, "availableBalance"))
    THEN Raise("KeyError", <<"'asset'">>)
    ELSE BalancesShown(Tail(rows))

\* cmd_balance from r, what get_account_balance did: only BinanceAPIError is
\* caught; the listing walks the body
balance_done(r) ==
    IF IsInstance(r.result, "BinanceAPIError")
    THEN [r EXCEPT !.result = Raise("SystemExit", <<"1">>)]
    ELSE IF r.result.exc # "" THEN r
    ELSE IF r.result.val.t = "dict"
    THEN [r EXCEPT !.result = IF Len(r.result.val.items) = 0 THEN Return(None)
                              ELSE Raise("AttributeError",
                                         <<"'str' object has no attribute 'get'">>)]
    ELSE [r EXCEPT !.result = BalancesShown(r.result.val.items)]

\* cmd_balance
cmd_balance(self, now, net, lvl) ==
    balance_done(BinanceClient_get_account_balance(self, now, net, lvl))

\* cmd_place from r, what place_order did
place_done(r) ==
    IF r.result.exc # "" THEN r
    ELSE IF r.result.val.success THEN [r EXCEPT !.result = Return(None)]
    ELSE [r EXCEPT !.result = Raise("SystemExit", <<"1">>)]

\* cmd_place
cmd_place(self, a, now, net, lvl) ==
    place_done(place_order(self, a.symbol, a.side, a.type, a.quantity, a.price, now, net, lvl))

\* _prompt(text, default): the typed line stripped, the default when nothing
\* is left of it (the empty text when there is no default)
prompt(line, default) == IF Len(strip(line)) > 0 THEN strip(line) ELSE default

\* _interactive_place_order from `Confirm? [y/N]` on: only y or yes sends, and
\* whatever place_order returns is printed
interactive_confirmed(self, symbol, side, order_type, quantity, price, confirm, now, net, lvl) ==
    IF lower(strip(confirm)) \notin {<<"y">>, <<"y", "e", "s">>}
    THEN NoRequest(Return(None), <<>>)
    ELSE [place_order(self, symbol, side, order_type, quantity, price, now, net, lvl)
          EXCEPT !.result = IF @.exc # "" THEN @ ELSE Return(None)]

\* _interactive_place_order from its own validate_all on, v being what that
\* did: only ValidationError is caught
interactive_validated(self, v, symbol, side, order_type, quantity, price, confirm, now, net, lvl) ==
    IF IsInstance(v, "ValidationError") THEN NoRequest(Return(None), <<>>)
    ELSE IF v.exc # "" THEN NoRequest(v, <<>>)
    ELSE interactive_confirmed(self, symbol, side, order_type, quantity, price, confirm,
                               now, net, lvl)

\* _interactive_place_order with the five values as the prompts gave them
interactive_prompted(self, symbol, side, order_type, quantity, price, confirm, now, net, lvl) ==
    interactive_validated(self, validate_all(symbol, side, order_type, quantity, price),
                          symbol, side, order_type, quantity, price, confirm, now, net, lvl)

\* _interactive_place_order: typed holds the lines typed at the prompts; the
\* price is asked for only when the type reads LIMIT
interactive_place_order(self, typed, now, net, lvl) ==
    interactive_prompted(self,
                         upper(prompt(typed.symbol, <<"B", "T", "C", "U", "S", "D", "T">>)),
                         upper(prompt(typed.side, <<"B", "U", "Y">>)),
                         upper(prompt(typed.order_type, MARKET)),
                         prompt(typed.quantity, <<>>),
                         IF upper(prompt(typed.order_type, MARKET)) = LIMIT
                         THEN Some(prompt(typed.price, <<>>)) ELSE None,
                         typed.confirm, now, net, lvl)

\* the try/except of cmd_interactive around r, what get_server_time did
connectivity_checked(r) ==
    IF IsInstance(r.result, "Exception")
    THEN [r EXCEPT !.result = Raise("SystemExit", <<"1">>)]
    ELSE [r EXCEPT !.result = Return(None)]

\* cmd_interactive as far as the menu loop: the connectivity check
cmd_interactive_check(self, now, net, lvl) ==
    connectivity_checked(BinanceClient_get_server_time(self, now, net, lvl))

\* dispatch.get(args.command)(client, args); for interactive, up to the loop
dispatch(self, a, now, net, lvl) ==
    CASE a.command = "ping" -> cmd_ping(self, now, net, lvl)
      [] a.command = "balance" -> cmd_balance(self, now, net, lvl)
      [] a.command = "interactive" -> cmd_interactive_check(self, now, net, lvl)
      [] OTHER -> cmd_place(self, a, now, net, lvl)

\* main() from _build_client on: log1 is what was logged so far, bc what
\* _build_client did
main_built(a, lg, log1, bc, now, net) ==
    IF bc.result.exc # ""
    THEN [result |-> bc.result, http |-> <<>>, signed |-> <<>>, log |-> log1 \o bc.log,
          logger |-> lg, client |-> None]
    ELSE [dispatch(bc.result.val, a, now, net, lg.level) EXCEPT !.log = log1 \o bc.log \o @]
             @@ [logger |-> lg, client |-> Some(bc.result.val)]

\* main() from setup_logging on, sl being what setup_logging did
main_logging(a, sl, environ, now, net) ==
    main_built(a, sl.logger,
               sl.log \o Emit(sl.logger.level, "DEBUG", "trading_bot",
                              <<"CLI args: ">> \o ReprArgs(a)),
               build_client(a, environ, sl.logger.level), now, net)

\* main() from the parsed arguments on
main_parsed(lg, parsed, environ, now, net) ==
    IF parsed.exc # ""
    THEN [result |-> parsed, http |-> <<>>, signed |-> <<>>, log |-> <<>>,
          logger |-> lg, client |-> None]
    ELSE main_logging(parsed.val, setup_logging(lg, parsed.val.log_level), environ, now, net)

\* main() for the one-shot commands: the state of the process when it ends
main(lg, raw, environ, now, net) == main_parsed(lg, parse_args(raw), environ, now, net)

---------------------------------------------------------------------------
(* The inputs the model draws from. *)

T_btc == <<"b", "t", "c">>
T_BTC == <<"B", "T", "C">>

SymbolInputs == {T_btc, <<"b", "t", "1">>, <<>>}
SideInputs == {<<"b", "u", "y">>, <<"S", "E", "L", "L">>, <<"h", "o", "l", "d">>}
TypeInputs == {<<"m", "a", "r", "k", "e", "t">>, <<" ", "l", "i", "m", "i", "t">>,
               <<"s", "t", "o", "p">>}
NumberInputs == {<<"0", ".", "0", "0", "1">>, <<"0", ".", "0", "0", "0", "0", "0", "0", "1">>,
                 <<"0">>, <<"-", "1">>, <<"a", "b", "c">>, <<" ">>, <<"N", "a", "N">>}
PriceInputs == {None} \cup {Some(t) : t \in NumberInputs}
LogLevels == {"DEBUG", "INFO", "WARNING", "ERROR"}
Clock == 1..MaxClock

\* Decimals a caller of the client can pass
DecimalInputs == {DecFinite(0, 1, -7), DecFinite(0, 90000, 0)}

\* what session.request can do
NetErrors ==
    {Raise("requests.ConnectionError", <<"Max retries exceeded">>),
     Raise("requests.ConnectTimeout", <<"Connection timed out">>),
     Raise("requests.ReadTimeout", <<"Read timed out.">>),
     Raise("requests.TooManyRedirects", <<"Exceeded 30 redirects.">>)}

Statuses == {200, 302, 400, 503}

Bodies ==
    {[text |-> <<"{\"orderId\":42,\"symbol\":\"BTC\",\"status\":\"NEW\",\"executedQty\":\"0\"}">>,
      json |-> JDict(<<E("orderId", JInt(42)), E("symbol", JStr(T_BTC)),
                       E("status", JStr(<<"NEW">>)), E("executedQty", JStr(<<"0">>))>>)],
     [text |-> <<"{\"code\":-1121,\"msg\":\"Invalid symbol.\"}">>,
      json |-> JDict(<<E("code", JInt(-1121)), E("msg", JStr(<<"Invalid symbol.">>))>>)],
     [text |-> <<"{\"code\":-2015}">>,
      json |-> JDict(<<E("code", JInt(-2015))>>)],
     [text |-> <<"{\"code\":200,\"msg\":\"ok\"}">>,
      json |-> JDict(<<E("code", JInt(200)), E("msg", JStr(<<"ok">>))>>)],
     [text |-> <<"{\"code\":\"x\"}">>,
      json |-> JDict(<<E("code", JStr(<<"x">>))>>)],
     [text |-> <<"{}">>, json |-> JDict(<<>>)],
     [text |-> <<"{\"serverTime\":1700}">>,
      json |-> JDict(<<E("serverTime", JInt(1700))>>)],
     [text |-> <<"[]">>, json |-> JList(<<>>)],
     [text |-> <<"[{\"asset\":\"USDT\",\"balance\":\"5\",\"availableBalance\":\"5\"}]">>,
      json |-> JList(<<JDict(<<E("asset", JStr(<<"USDT">>)), E("balance", JStr(<<"5">>)),
                               E("availableBalance", JStr(<<"5">>))>>)>>)],
     [text |-> <<"<html>Bad Gateway</html>">>, json |-> [t |-> "invalid"]]}

Responses == {Return([status_code |-> st, text |-> b.text, json |-> b.json]) :
                  st \in Statuses, b \in Bodies}

NetOutcomes == NetErrors \cup Responses

\* command lines
CommandLines ==
    {[command |-> c, log_level |-> l, api_key |-> cr[1], api_secret |-> cr[2],
      symbol |-> T_btc, side |-> <<"b", "u", "y">>, type |-> MARKET,
      quantity |-> <<"0">>, price |-> None] :
        c \in {"ping", "balance"}, l \in LogLevels,
        cr \in {<<None, None>>, <<Some(ApiKey), Some(ApiSecret)>>, <<Some(ApiKey), None>>}}
    \cup
    {[command |-> "place", log_level |-> l, api_key |-> cr[1], api_secret |-> cr[2],
      symbol |-> sy, side |-> si, type |-> ty, quantity |-> q, price |-> p] :
        l \in {"DEBUG", "INFO"}, cr \in {<<None, None>>, <<Some(ApiKey), Some(ApiSecret)>>},
        sy \in {T_btc, <<"b", "t", "1">>}, si \in {<<"b", "u", "y">>, <<"h", "o", "l", "d">>},
        ty \in {<<"m", "a", "r", "k", "e", "t">>, <<"l", "i", "m", "i", "t">>},
        q \in {<<"0", ".", "0", "0", "1">>, <<"0">>, <<"N", "a", "N">>},
        p \in {None, Some(<<"0", ".", "0", "0", "1">>), Some(<<"-", "1">>)}}

\* os.environ after load_dotenv()
Environs ==
    {[BINANCE_TESTNET_API_KEY |-> <<>>, BINANCE_TESTNET_API_SECRET |-> <<>>],
     [BINANCE_TESTNET_API_KEY |-> ApiKey, BINANCE_TESTNET_API_SECRET |-> ApiSecret]}

\* whether main(raw, environ) gets as far as the session
MainReaches(raw, environ) ==
    LET parsed == parse_args(raw)
        bc == build_client(parsed.val, environ, "INFO")
    IN  /\ parsed.exc = ""
        /\ bc.result.exc = ""
        /\ (raw.command = "place" =>
                validate_all(parsed.val.symbol, parsed.val.side, parsed.val.type,
                             parsed.val.quantity, parsed.val.price).exc = "")

\* python cli.py ... interactive
InteractiveLines ==
    {[command |-> "interactive", log_level |-> l, api_key |-> cr[1], api_secret |-> cr[2],
      symbol |-> T_btc, side |-> <<"b", "u", "y">>, type |-> MARKET,
      quantity |-> <<"0">>, price |-> None] :
        l \in {"DEBUG", "INFO"}, cr \in {<<None, None>>, <<Some(ApiKey), Some(ApiSecret)>>}}

\* what can be typed at `Enter choice:`
MenuChoices == {<<"1">>, <<"2">>, <<" ", "3">>, <<"Q", " ">>, <<"x">>, <<>>}

\* the five values _interactive_place_order takes from the lines typed
EnteredValues(typed) ==
    [symbol |-> upper(prompt(typed.symbol, <<"B", "T", "C", "U", "S", "D", "T">>)),
     side |-> upper(prompt(typed.side, <<"B", "U", "Y">>)),
     order_type |-> upper(prompt(typed.order_type, MARKET)),
     quantity |-> prompt(typed.quantity, <<>>),
     price |-> IF upper(prompt(typed.order_type, MARKET)) = LIMIT
               THEN Some(prompt(typed.price, <<>>)) ELSE None]

\* validate_all on the values entered
EnteredChecked(typed) ==
    validate_all(EnteredValues(typed).symbol, EnteredValues(typed).side,
                 EnteredValues(typed).order_type, EnteredValues(typed).quantity,
                 EnteredValues(typed).price)

\* the answer to `Confirm? [y/N]` is a yes
Confirms(typed) == lower(strip(typed.confirm)) \in {<<"y">>, <<"y", "e", "s">>}

\* The lines typed at the prompts of one order.  No price is typed unless the
\* type reads LIMIT and no answer unless the values passed validate_all: those
\* prompts are not shown.
TypedOrders ==
    {t \in [symbol : {<<>>, <<"b", "t", "1">>},
            side : {<<>>, <<" ", "s", "e", "l", "l">>, <<"h", "o", "l", "d">>},
            order_type : {<<>>, <<"l", "i", "m", "i", "t">>, <<"s", "t", "o", "p">>},
            quantity : {<<"0", ".", "0", "0", "1">>, <<>>, <<"0">>, <<"N", "a", "N">>},
            price : {<<>>, <<"5", "0">>, <<"-", "1">>, <<"N", "a", "N">>},
            confirm : {<<>>, <<"y">>, <<" ", "Y", "e", "s">>, <<"n">>, <<"y", "e", "p">>}] :
        /\ EnteredValues(t).order_type # LIMIT => t.price = <<>>
        /\ EnteredChecked(t).exc # "" => t.confirm = <<>>}

\* The network and the clock matter only to a call that reaches the session.
NetFor(reaches) == IF reaches THEN NetOutcomes ELSE {Raise("requests.ConnectionError", <<>>)}
ClockFor(reaches) == IF reaches THEN Clock ELSE {1}

---------------------------------------------------------------------------
(* The state machine: a caller that sets up logging, builds a client and   *)
(* calls the library, one call at a time.                                  *)

Init ==
    /\ op = "none"
    /\ args = <<>>
    /\ outcome = Return(None)
    /\ http = <<>>
    /\ signed = <<>>
    /\ log = <<>>
    /\ logger = [level |-> "NOTSET", handlers |-> FALSE]
    /\ client = None
    /\ pc = "idle"

\* the call `name` with inputs `a` ended as r = [result, http, signed, log]
Called(name, a, r) ==
    /\ op' = name
    /\ args' = a
    /\ outcome' = r.result
    /\ http' = r.http
    /\ signed' = r.signed
    /\ log' = r.log
    /\ pc' = "returned"

\* The caller takes note of the result and goes on: calls share nothing but
\* the logger and the client.
Continue ==
    /\ pc = "returned"
    /\ op' = "none"
    /\ args' = <<>>
    /\ outcome' = Return(None)
    /\ http' = <<>>
    /\ signed' = <<>>
    /\ log' = <<>>
    /\ pc' = "idle"
    /\ UNCHANGED <<logger, client>>

\* python cli.py ...: a fresh process runs main() to its end
Main ==
    /\ pc = "idle"
    /\ ~client.some
    /\ logger = [level |-> "NOTSET", handlers |-> FALSE]
    /\ \E raw \in CommandLines, environ \in Environs :
          LET reaches == MainReaches(raw, environ)
          IN  \E now \in ClockFor(reaches /\ raw.command # "ping"), net \in NetFor(reaches) :
                 LET r == main(logger, raw, environ, now, net)
                 IN  /\ op' = "main"
                     /\ args' = [raw |-> raw, environ |-> environ]
                     /\ outcome' = r.result
                     /\ http' = r.http
                     /\ signed' = r.signed
                     /\ log' = r.log
                     /\ logger' = r.logger
                     /\ client' = r.client
                     /\ pc' = "exited"

\* the process is gone; the next one starts afresh
Exit ==
    /\ pc = "exited"
    /\ op' = "none"
    /\ args' = <<>>
    /\ outcome' = Return(None)
    /\ http' = <<>>
    /\ signed' = <<>>
    /\ log' = <<>>
    /\ logger' = [level |-> "NOTSET", handlers |-> FALSE]
    /\ client' = None
    /\ pc' = "idle"

SetupLogging ==
    /\ pc = "idle"
    /\ \E log_level \in LogLevels \cup {"TRACE"} :
          LET r == setup_logging(logger, log_level)
          IN  /\ logger' = r.logger
              /\ Called("setup_logging", [log_level |-> log_level],
                        NoRequest(Return(None), r.log))
    /\ UNCHANGED client

Construct ==
    /\ pc = "idle"
    /\ \E api_key \in {<<>>, ApiKey}, api_secret \in {<<>>, ApiSecret} :
          LET r == BinanceClient_init(api_key, api_secret, EffectiveLevel(logger))
          IN  /\ client' = IF r.result.exc = "" THEN Some(r.result.val) ELSE client
              /\ Called("BinanceClient", [api_key |-> api_key, api_secret |-> api_secret],
                        NoRequest(r.result, r.log))
    /\ UNCHANGED logger

ValidateQuantity ==
    /\ pc = "idle"
    /\ \E quantity \in NumberInputs :
          Called("validate_quantity", [quantity |-> quantity],
                 NoRequest(validate_quantity(quantity), <<>>))
    /\ UNCHANGED <<logger, client>>

ValidatePrice ==
    /\ pc = "idle"
    /\ \E price \in PriceInputs, order_type \in {MARKET, LIMIT} :
          Called("validate_price", [price |-> price, order_type |-> order_type],
                 NoRequest(validate_price(price, order_type), <<>>))
    /\ UNCHANGED <<logger, client>>

ValidateAll ==
    /\ pc = "idle"
    /\ \E symbol \in SymbolInputs, side \in SideInputs, order_type \in TypeInputs,
          quantity \in NumberInputs, price \in PriceInputs :
          Called("validate_all",
                 [symbol |-> symbol, side |-> side, order_type |-> order_type,
                  quantity |-> quantity, price |-> price],
                 NoRequest(validate_all(symbol, side, order_type, quantity, price), <<>>))
    /\ UNCHANGED <<logger, client>>

PlaceOrder ==
    /\ pc = "idle"
    /\ client.some
    /\ \E symbol \in SymbolInputs, side \in SideInputs, order_type \in TypeInputs,
          quantity \in NumberInputs, price \in PriceInputs :
          LET reaches == validate_all(symbol, side, order_type, quantity, price).exc = ""
          IN  \E now \in ClockFor(reaches), net \in NetFor(reaches) :
                 Called("place_order",
                        [symbol |-> symbol, side |-> side, order_type |-> order_type,
                         quantity |-> quantity, price |-> price],
                        place_order(client.v, symbol, side, order_type, quantity, price,
                                    now, net, EffectiveLevel(logger)))
    /\ UNCHANGED <<logger, client>>

ClientPlaceOrder ==
    /\ pc = "idle"
    /\ client.some
    /\ \E symbol \in {T_BTC}, side \in {<<"B", "U", "Y">>}, order_type \in VALID_ORDER_TYPES,
          quantity \in DecimalInputs, price \in {None} \cup {Some(d) : d \in DecimalInputs},
          time_in_force \in {<<"GTC">>, <<"IOC">>}, reduce_only \in BOOLEAN :
          LET reaches == ~(order_type = LIMIT /\ ~price.some)
          IN  \E now \in ClockFor(reaches), net \in NetFor(reaches) :
                 Called("BinanceClient.place_order",
                        [symbol |-> symbol, side |-> side, order_type |-> order_type,
                         quantity |-> quantity, price |-> price,
                         time_in_force |-> time_in_force, reduce_only |-> reduce_only],
                        BinanceClient_place_order(client.v, symbol, side, order_type,
                                                  quantity, price, time_in_force,
                                                  reduce_only, now, net,
                                                  EffectiveLevel(logger)))
    /\ UNCHANGED <<logger, client>>

GetOrder ==
    /\ pc = "idle"
    /\ client.some
    /\ \E order_id \in {42}, now \in Clock, net \in NetOutcomes :
          Called("BinanceClient.get_order", [symbol |-> T_BTC, order_id |-> order_id],
                 BinanceClient_get_order(client.v, T_BTC, order_id, now, net,
                                         EffectiveLevel(logger)))
    /\ UNCHANGED <<logger, client>>

CancelOrder ==
    /\ pc = "idle"
    /\ client.some
    /\ \E order_id \in {42}, now \in Clock, net \in NetOutcomes :
          Called("BinanceClient.cancel_order", [symbol |-> T_BTC, order_id |-> order_id],
                 BinanceClient_cancel_order(client.v, T_BTC, order_id, now, net,
                                            EffectiveLevel(logger)))
    /\ UNCHANGED <<logger, client>>

GetAccountBalance ==
    /\ pc = "idle"
    /\ client.some
    /\ \E now \in Clock, net \in NetOutcomes :
          Called("BinanceClient.get_account_balance", <<>>,
                 BinanceClient_get_account_balance(client.v, now, net,
                                                   EffectiveLevel(logger)))
    /\ UNCHANGED <<logger, client>>

GetServerTime ==
    /\ pc = "idle"
    /\ client.some
    /\ \E now \in ClockFor(FALSE), net \in NetOutcomes :
          Called("BinanceClient.get_server_time", <<>>,
                 BinanceClient_get_server_time(client.v, now, net, EffectiveLevel(logger)))
    /\ UNCHANGED <<logger, client>>

GetExchangeInfo ==
    /\ pc = "idle"
    /\ client.some
    /\ \E symbol \in {None, Some(T_BTC)}, now \in ClockFor(FALSE), net \in NetOutcomes :
          Called("BinanceClient.get_exchange_info", [symbol |-> symbol],
                 BinanceClient_get_exchange_info(client.v, symbol, now, net,
                                                 EffectiveLevel(logger)))
    /\ UNCHANGED <<logger, client>>

\* python cli.py ... interactive: a fresh process runs main() as far as the
\* menu loop, or ends before it
Interactive ==
    /\ pc = "idle"
    /\ ~client.some
    /\ logger = [level |-> "NOTSET", handlers |-> FALSE]
    /\ \E raw \in InteractiveLines, environ \in Environs :
          \E net \in NetFor(MainReaches(raw, environ)) :
              LET r == main(logger, raw, environ, 1, net)
              IN  /\ op' = "main"
                  /\ args' = [raw |-> raw, environ |-> environ]
                  /\ outcome' = r.result
                  /\ http' = r.http
                  /\ signed' = r.signed
                  /\ log' = r.log
                  /\ logger' = r.logger
                  /\ client' = r.client
                  /\ pc' = IF r.result.exc = "" THEN "looping" ELSE "exited"

\* one pass of the menu loop ran the entry `name` on the lines a and ended as
\* r: back to the top of the loop, or out of main() with the exception
Chosen(name, a, r) ==
    /\ op' = name
    /\ args' = a
    /\ outcome' = r.result
    /\ http' = r.http
    /\ signed' = r.signed
    /\ log' = r.log
    /\ pc' = IF r.result.exc = "" THEN "looping" ELSE "exited"
    /\ UNCHANGED <<logger, client>>

\* the top of `while True`: the menu is printed and a choice awaited
ShowMenu ==
    /\ pc = "looping"
    /\ op' = "none"
    /\ args' = <<>>
    /\ outcome' = Return(None)
    /\ http' = <<>>
    /\ signed' = <<>>
    /\ log' = <<>>
    /\ pc' = "menu"
    /\ UNCHANGED <<logger, client>>

\* choice 1: _interactive_place_order
MenuPlaceOrder ==
    /\ pc = "menu"
    /\ \E choice \in MenuChoices, typed \in TypedOrders :
          /\ lower(strip(choice)) = <<"1">>
          /\ LET reaches == EnteredChecked(typed).exc = "" /\ Confirms(typed)
             IN  \E now \in ClockFor(reaches), net \in NetFor(reaches) :
                    Chosen("_interactive_place_order", typed,
                           interactive_place_order(client.v, typed, now, net,
                                                   EffectiveLevel(logger)))

\* choice 2: cmd_balance
MenuBalance ==
    /\ pc = "menu"
    /\ \E choice \in MenuChoices, now \in Clock, net \in NetOutcomes :
          /\ lower(strip(choice)) = <<"2">>
          /\ Chosen("cmd_balance", <<>>,
                    cmd_balance(client.v, now, net, EffectiveLevel(logger)))

\* choice 3: cmd_ping
MenuPing ==
    /\ pc = "menu"
    /\ \E choice \in MenuChoices, net \in NetOutcomes :
          /\ lower(strip(choice)) = <<"3">>
          /\ Chosen("cmd_ping", <<>>, cmd_ping(client.v, 1, net, EffectiveLevel(logger)))

\* choice q: the loop breaks and main() returns
MenuQuit ==
    /\ pc = "menu"
    /\ \E choice \in MenuChoices :
          /\ lower(strip(choice)) = <<"q">>
          /\ op' = "quit"
          /\ args' = <<>>
          /\ outcome' = Return(None)
          /\ http' = <<>>
          /\ signed' = <<>>
          /\ log' = <<>>
          /\ pc' = "exited"
    /\ UNCHANGED <<logger, client>>

\* any other choice: `Invalid choice. Try again.`
MenuInvalid ==
    /\ pc = "menu"
    /\ \E choice \in MenuChoices :
          /\ lower(strip(choice)) \notin {<<"1">>, <<"2">>, <<"3">>, <<"q">>}
          /\ Chosen("invalid_choice", [choice |-> choice], NoRequest(Return(None), <<>>))

Next ==
    \/ Continue
    \/ Main
    \/ Exit
    \/ SetupLogging
    \/ Construct
    \/ ValidateQuantity
    \/ ValidatePrice
    \/ ValidateAll
    \/ PlaceOrder
    \/ ClientPlaceOrder
    \/ GetOrder
    \/ CancelOrder
    \/ GetAccountBalance
    \/ GetServerTime
    \/ GetExchangeInfo
    \/ Interactive
    \/ ShowMenu
    \/ MenuPlaceOrder
    \/ MenuBalance
    \/ MenuPing
    \/ MenuQuit
    \/ MenuInvalid

Spec == Init /\ [][Next]_vars

---------------------------------------------------------------------------
(* What the last call was and what the network did to it. *)

\* the methods of the client that go through _request
RequestOps == {"BinanceClient.place_order", "BinanceClient.get_order",
               "BinanceClient.cancel_order", "BinanceClient.get_account_balance",
               "BinanceClient.get_server_time", "BinanceClient.get_exchange_info"}

\* the methods of the client whose request is signed
SignedOps == {"BinanceClient.place_order", "BinanceClient.get_order",
              "BinanceClient.cancel_order", "BinanceClient.get_account_balance"}

\* the session answered, and the body parsed to a mapping with a negative integer code
NegativeCode(reply) ==
    /\ reply.exc = ""
    /\ reply.val.json.t = "dict"
    /\ HasKey(reply.val.json.items, "code")
    /\ Lookup(reply.val.json.items, "code").ty = "int"
    /\ Lookup(reply.val.json.items, "code").n < 0

\* the text is a number greater than zero
IsPositiveNumber(text) ==
    /\ Decimal(text).exc = ""
    /\ Decimal(text).val.kind = "F"
    /\ Decimal(text).val.sign = 0
    /\ Decimal(text).val.int > 0

---------------------------------------------------------------------------
(* The claims. *)

\* C1: the orchestrator's place_order never raises: for every input and for
\* every outcome of the client call it returns an OrderResult, and the result
\* says success only when the exchange answered the request.
C1_PlaceOrderNeverRaises ==
    op = "place_order" =>
        /\ outcome.exc = ""
        /\ outcome.val.success => (Len(http) = 1 /\ http[1].reply.exc = "")

\* C2: in the orchestrator's place_order validation comes before the network:
\* when validate_all raises ValidationError the call returns a failure
\* OrderResult and the session issued no request; a request is issued only
\* when all five checks passed.
C2_ValidationBeforeNetwork ==
    op = "place_order" =>
        /\ IsInstance(validate_all(args.symbol, args.side, args.order_type,
                                   args.quantity, args.price), "ValidationError")
               => (outcome.exc = "" /\ ~outcome.val.success /\ Len(http) = 0)
        /\ Len(http) > 0
               => validate_all(args.symbol, args.side, args.order_type,
                               args.quantity, args.price).exc = ""

\* C2, its case: a rejected input came back as a failure with no request made
C2_Witness ==
    /\ op = "place_order"
    /\ IsInstance(validate_all(args.symbol, args.side, args.order_type,
                               args.quantity, args.price), "ValidationError")
    /\ outcome.exc = ""
    /\ ~outcome.val.success
    /\ Len(http) = 0

\* C3: whatever the HTTP status, a body that is a mapping with a negative
\* integer code makes the client raise BinanceAPIError with that code, the
\* body's msg and the status, and makes the orchestrator's place_order return
\* a failure whose error_message contains the code.
C3_NegativeCodeIsAPIError ==
    \A i \in 1..Len(http) :
        NegativeCode(http[i].reply) =>
            /\ op \in RequestOps =>
                   /\ outcome.exc = "BinanceAPIError"
                   /\ outcome.code = Lookup(http[i].reply.val.json.items, "code").n
                   /\ outcome.status_code = http[i].reply.val.status_code
                   /\ HasKey(http[i].reply.val.json.items, "msg") =>
                          outcome.api_msg
                              = ScalarStr(Lookup(http[i].reply.val.json.items, "msg"))
            /\ op = "place_order" =>
                   /\ outcome.exc = ""
                   /\ ~outcome.val.success
                   /\ outcome.val.error_message.some
                   /\ Contains(outcome.val.error_message.v,
                               IntToStr(Lookup(http[i].reply.val.json.items, "code").n))

\* C3, its case: a negative code under HTTP 200 reached the orchestrator
C3_Witness ==
    /\ op = "place_order"
    /\ Len(http) = 1
    /\ NegativeCode(http[1].reply)
    /\ http[1].reply.val.status_code = 200
    /\ ~outcome.val.success

\* C4: a non-2xx status with a valid JSON body holding no negative code makes
\* the client raise BinanceAPIError, its code the body's or -1, its msg the
\* body's or the raw body text; the body is never returned and no other kind
\* of error is raised.
C4_FailureStatusIsAPIError ==
    \A i \in 1..Len(http) :
        (/\ op \in RequestOps
         /\ http[i].reply.exc = ""
         /\ ~(200 <= http[i].reply.val.status_code /\ http[i].reply.val.status_code < 300)
         /\ http[i].reply.val.json.t # "invalid"
         /\ ~NegativeCode(http[i].reply))
        => /\ outcome.exc = "BinanceAPIError"
           /\ outcome.status_code = http[i].reply.val.status_code
           /\ (http[i].reply.val.json.t = "dict"
               /\ HasKey(http[i].reply.val.json.items, "code")
               /\ Lookup(http[i].reply.val.json.items, "code").ty = "int")
                  => outcome.code = Lookup(http[i].reply.val.json.items, "code").n
           /\ ~(http[i].reply.val.json.t = "dict"
                /\ HasKey(http[i].reply.val.json.items, "code"))
                  => outcome.code = -1
           /\ ~(http[i].reply.val.json.t = "dict"
                /\ HasKey(http[i].reply.val.json.items, "msg"))
                  => outcome.api_msg = http[i].reply.val.text

\* C5: a failure of the transport leaves the client as ConnectionError when
\* the connection failed and as TimeoutError when it timed out, a timeout
\* while connecting included, and no exception of the transport library
\* leaves the client, whatever the session did.
C5_TransportErrorsMapped ==
    \A i \in 1..Len(http) :
        op \in RequestOps =>
            /\ ~IsInstance(outcome, "requests.RequestException")
            /\ http[i].reply.exc # "" => outcome.exc \in {"ConnectionError", "TimeoutError"}
            /\ IsInstance(http[i].reply, "requests.Timeout") => outcome.exc = "TimeoutError"
            /\ (IsInstance(http[i].reply, "requests.ConnectionError")
                /\ ~IsInstance(http[i].reply, "requests.Timeout"))
                   => outcome.exc = "ConnectionError"

\* C6: a body that is not JSON makes the client raise, under every status,
\* one kind of error of its own that carries the status and the truncated
\* body: not BinanceAPIError, not an exception of the transport or the parser.
C6_NonJsonIsUnexpectedResponse ==
    \A i \in 1..Len(http) :
        (op \in RequestOps /\ http[i].reply.exc = "" /\ http[i].reply.val.json.t = "invalid")
        => /\ outcome.exc \notin {"", "BinanceAPIError", "ValueError"}
           /\ ~IsInstance(outcome, "requests.RequestException")
           /\ "status_code" \in DOMAIN outcome
           /\ outcome.status_code = http[i].reply.val.status_code

\* C7: credentials are never logged: after any commands, at any log level,
\* however the credentials were given, no log record holds the API secret, and
\* no record of a set of parameters or arguments holds the API key.
C7_CredentialsNeverLogged ==
    \A i \in 1..Len(log) :
        /\ ~Contains(log[i].msg, ApiSecret)
        /\ (Contains(log[i].msg, <<" | params=">>) \/ Contains(log[i].msg, <<"CLI args: ">>))
               => ~Contains(log[i].msg, ApiKey)

\* what the caller of a signed method hands to _request, from the method's inputs
CallerParams ==
    CASE op = "BinanceClient.place_order" ->
            <<E("symbol", args.symbol), E("side", args.side), E("type", args.order_type),
              E("quantity", DecimalStr(args.quantity))>>
            \o (IF args.order_type = LIMIT
                THEN <<E("price", DecimalStr(args.price.v)),
                       E("timeInForce", args.time_in_force)>>
                ELSE <<>>)
            \o (IF args.reduce_only THEN <<E("reduceOnly", <<"true">>)>> ELSE <<>>)
      [] op \in {"BinanceClient.get_order", "BinanceClient.cancel_order"} ->
            <<E("symbol", args.symbol), E("orderId", IntToStr(args.order_id))>>
      [] OTHER -> <<>>

\* C8: every signed request carries the caller's parameters in insertion
\* order, then timestamp, then recvWindow (5000), then signature last, and the
\* signature is the digest, under the client's secret, of the encoding of all
\* the parameters before it in that order.
C8_SignedParamsOrder ==
    \A i \in 1..Len(http) :
        op \in SignedOps =>
            LET w == http[i].params
                n == Len(w)
            IN  /\ n = Len(CallerParams) + 3
                /\ SubSeq(w, 1, n - 3) = CallerParams
                /\ w[n - 2].k = "timestamp"
                /\ w[n - 1] = E("recvWindow", <<"5", "0", "0", "0">>)
                /\ w[n].k = "signature"
                /\ w[n].v = hexdigest(client.v.api_secret, urlencode(SubSeq(w, 1, n - 1)))
                /\ signed = <<urlencode(SubSeq(w, 1, n - 1))>>

\* C8, its case: a LIMIT reduce-only order went out with all its parameters
C8_Witness ==
    /\ op = "BinanceClient.place_order"
    /\ args.order_type = LIMIT
    /\ args.reduce_only
    /\ Len(http) = 1
    /\ Len(http[1].params) = 10

\* C9: the client's place_order for a LIMIT order without a price fails with
\* a ValueError before any HTTP request: no request is made, nothing is signed.
C9_LimitWithoutPriceFailsFast ==
    (op = "BinanceClient.place_order" /\ args.order_type = LIMIT /\ ~args.price.some)
    => /\ IsInstance(outcome, "ValueError")
       /\ Len(http) = 0
       /\ Len(signed) = 0

\* C9, its case: a LIMIT order without a price was refused
C9_Witness ==
    /\ op = "BinanceClient.place_order"
    /\ args.order_type = LIMIT
    /\ ~args.price.some
    /\ outcome.exc = "ValueError"

\* C10: validate_quantity, and validate_price for a LIMIT order, raise
\* ValidationError and nothing else for every input that is not a number
\* (blank and not-a-number text included) or is <= 0, and return the exact
\* decimal value for every input > 0.
C10_ValidatorsRejectOrReturnExact ==
    /\ op = "validate_quantity" =>
           IF IsPositiveNumber(args.quantity)
           THEN outcome = Return(Decimal(args.quantity).val)
           ELSE outcome.exc = "ValidationError"
    /\ (op = "validate_price" /\ args.order_type = LIMIT) =>
           IF args.price.some /\ IsPositiveNumber(args.price.v)
           THEN outcome = Return(Some(Decimal(args.price.v).val))
           ELSE outcome.exc = "ValidationError"

\* what the earliest failing check did, taking the five checks of validate_all
\* in the order symbol, side, order type, quantity, price; Return(None) when
\* every check passes
FirstFailure(a) ==
    IF validate_symbol(a.symbol).exc # "" THEN validate_symbol(a.symbol)
    ELSE IF validate_side(a.side).exc # "" THEN validate_side(a.side)
    ELSE IF validate_order_type(a.order_type).exc # "" THEN validate_order_type(a.order_type)
    ELSE IF validate_quantity(a.quantity).exc # "" THEN validate_quantity(a.quantity)
    ELSE IF validate_price(a.price, upper(strip(a.order_type))).exc # ""
    THEN validate_price(a.price, upper(strip(a.order_type)))
    ELSE Return(None)

\* how many of the five fields their checks refuse
InvalidFields(a) ==
    Cardinality({i \in 1..5 :
        CASE i = 1 -> validate_symbol(a.symbol).exc # ""
          [] i = 2 -> validate_side(a.side).exc # ""
          [] i = 3 -> validate_order_type(a.order_type).exc # ""
          [] i = 4 -> validate_quantity(a.quantity).exc # ""
          [] OTHER -> validate_price(a.price, upper(strip(a.order_type))).exc # ""})

\* C11: validate_all runs the checks in the order symbol, side, order type,
\* quantity, price and stops at the first that fails: for every input with
\* several invalid fields, validate_all raises the ValidationError of the
\* earliest invalid field, whatever the later fields hold, and the
\* orchestrator's place_order returns a failure whose error_message is that
\* error's.
C11_EarliestInvalidFieldReported ==
    /\ (op = "validate_all" /\ InvalidFields(args) >= 2)
           => (outcome.exc = "ValidationError" /\ outcome = FirstFailure(args))
    /\ (op = "place_order" /\ InvalidFields(args) >= 2)
           => /\ outcome.exc = ""
              /\ ~outcome.val.success
              /\ outcome.val.error_message = Some(FirstFailure(args).msg)
              /\ Len(http) = 0

\* the order of the checks alone: what validate_all raises is what the
\* earliest failing check raised
ChecksRunInOrder ==
    op = "validate_all" =>
        IF FirstFailure(args).exc # "" THEN outcome = FirstFailure(args) ELSE outcome.exc = ""

\* C12: every OrderRequest validate_all returns has a price exactly when its
\* order type is LIMIT: for MARKET the price is absent whatever price was
\* given, for LIMIT it is the given price as a decimal greater than zero; and
\* the order the orchestrator hands to the client goes out with a price (and a
\* timeInForce) exactly when its type is LIMIT, the price being that decimal.
C12_PriceIffLimit ==
    /\ (op = "validate_all" /\ outcome.exc = "") =>
           /\ outcome.val.order_type \in VALID_ORDER_TYPES
           /\ outcome.val.price.some <=> outcome.val.order_type = LIMIT
           /\ outcome.val.price.some =>
                  /\ args.price.some
                  /\ IsPositiveNumber(args.price.v)
                  /\ outcome.val.price.v = Decimal(args.price.v).val
    /\ op = "place_order" =>
           \A i \in 1..Len(http) :
               /\ Lookup(http[i].params, "type") \in VALID_ORDER_TYPES
               /\ HasKey(http[i].params, "price") <=> Lookup(http[i].params, "type") = LIMIT
               /\ HasKey(http[i].params, "timeInForce")
                      <=> Lookup(http[i].params, "type") = LIMIT
               /\ HasKey(http[i].params, "price") =>
                      /\ args.price.some
                      /\ IsPositiveNumber(args.price.v)
                      /\ Lookup(http[i].params, "price")
                             = DecimalStr(Decimal(args.price.v).val)

\* C12, its case: a MARKET order given a valid price came back without one
C12_Witness ==
    /\ op = "validate_all"
    /\ outcome.exc = ""
    /\ outcome.val.order_type = MARKET
    /\ args.price.some
    /\ IsPositiveNumber(args.price.v)
    /\ ~outcome.val.price.some

\* C13: in the interactive place-order flow an order request goes to the
\* exchange only after the values entered passed validate_all and the answer
\* to the confirmation was y or yes (trimmed, in any case); when validation
\* fails or the answer is anything else the flow returns to the menu with no
\* order request made; and one pass makes at most one order request.
C13_InteractiveSendsOnlyConfirmed ==
    op = "_interactive_place_order" =>
        /\ Len(http) <= 1
        /\ \A i \in 1..Len(http) :
               /\ http[i].method = "POST"
               /\ http[i].url = <<"https://testnet.binancefuture.com", "/fapi/v1/order">>
        /\ Len(http) = 1 => (EnteredChecked(args).exc = "" /\ Confirms(args))
        /\ (EnteredChecked(args).exc # "" \/ ~Confirms(args))
               => (Len(http) = 0 /\ outcome.exc = "" /\ pc = "looping")

\* the sending alone: a pass makes at most one request, an order request, and
\* only for values that passed validate_all and an answer of y or yes
OrderSentOnlyWhenConfirmed ==
    op = "_interactive_place_order" =>
        /\ Len(http) <= 1
        /\ \A i \in 1..Len(http) :
               /\ http[i].method = "POST"
               /\ http[i].url = <<"https://testnet.binancefuture.com", "/fapi/v1/order">>
        /\ Len(http) = 1 <=> (EnteredChecked(args).exc = "" /\ Confirms(args))

====
